---- MODULE Spec2Model ----
(***************************************************************************)
(* LatencyMarkHarness (source/tools/LatencyMarkHarness.h): the adaptive    *)
(* latency search, the voice load generator and the glitch monitor thread. *)
(*                                                                         *)
(* Two flows of control are modelled: the primary flow (runTest and the    *)
(* per-note callbacks of the harness base class) at position pc, and the   *)
(* monitor thread (monitorCallback) at position mpc.  The audio sink, the  *)
(* harness base class, the timer and HostThread are collaborators whose    *)
(* code is not part of this file; they are modelled from the design        *)
(* document and kept apart from the definitions that model the header.     *)
(*                                                                         *)
(* Times are integers: mGlitchTime is kept in milliseconds and the latency *)
(* in microseconds; with the rates and burst sizes drawn here both float   *)
(* divisions of the source are exact.                                      *)
(***************************************************************************)
EXTENDS Integers, Sequences, FiniteSets, TLC

VARIABLES
    \* the audio sink
    bufferSizeInFrames, bufferCapacityInFrames, underrunCount,
    \* TestHarnessBase: configuration, window counters, timer, result
    pc, mSampleRate, mFramesPerBurst, mFramesNeeded, mFrameCounter, mNoteCounter,
    activeTime, mNumVoices, mNumVoicesHigh, voices,
    resultCode, measurement, latencyMicros, runResult,
    \* LatencyMarkHarness fields and the static of getCurrentNumVoices
    mPreviousUnderrunCount, mVoicesMode, mMonitorThread, mMonitorEnabled,
    mGlitchTime, lastVoices, randState,
    \* the monitor thread: position, locals, what it printed
    mpc, previousBufferSize, currentBufferSize, notifications, lastNotice,
    pollsAfterStop,
    \* history of the run (read by the properties only)
    detections, requests, refused, sizeChanges, underrunsAtRestart,
    \* the harness instances of the process: which one runs, the voice counts
    \* it asked for, and those the one before it asked for
    run, trace, previousTrace

sinkVars == <<bufferSizeInFrames, bufferCapacityInFrames, underrunCount>>
configVars == <<mSampleRate, mFramesPerBurst, mFramesNeeded, mNumVoices, mNumVoicesHigh,
                mVoicesMode>>
windowVars == <<mFrameCounter, mNoteCounter>>
voiceVars == <<voices, lastVoices, randState>>
resultVars == <<resultCode, measurement, latencyMicros, runResult>>
monitorVars == <<mpc, previousBufferSize, currentBufferSize, notifications, lastNotice,
                 pollsAfterStop>>
historyVars == <<detections, requests, refused, sizeChanges, underrunsAtRestart>>
runVars == <<run, trace, previousTrace>>

vars == <<sinkVars, configVars, windowVars, voiceVars, resultVars, monitorVars, historyVars,
          runVars,
          pc, activeTime, mPreviousUnderrunCount, mMonitorThread, mMonitorEnabled,
          mGlitchTime>>

---------------------------------------------------------------------------
(* Bounds of the model *)

\* The largest capacity of the sink, in bursts (capacities 1..MaxBursts).
MaxBursts == 3
\* How many harness instances the process builds and runs, one after the other.
MaxRuns == 2
\* How many underrun events the sink reports in one run.
MaxUnderruns == 3
\* The timer's active time saturates here (only activeTime > 0 is read).
MaxActiveTime == 1
\* Length of the measurement window of the search runs, in bursts.
WindowBursts == 3
\* Length of the measurement window of the load-generator runs, in bursts.
LoadWindowBursts == 11

(* Program constants *)

NOTES_PER_STEP == 10
\* rand() is modelled as a small full-period linear congruential generator.
RandModulus == 16

SUCCESS == "SYNTHMARK_RESULT_SUCCESS"
UNRECOVERABLE_ERROR == "SYNTHMARK_RESULT_UNRECOVERABLE_ERROR"
UNINITIALIZED == "UNINITIALIZED"

VoicesModes == {"VOICES_SWITCH", "VOICES_RANDOM", "VOICES_LINEAR_LOOP"}
\* <<low, high>>: high unset, high above low, high set below low
VoicePairs == {<<1, 0>>, <<2, 13>>, <<6, 4>>}
SampleRates == {48000}
BurstSizes == {192}

NoNotice == [time |-> -1, size |-> 0, bursts |-> 0]

---------------------------------------------------------------------------
(* The audio sink *)

\* setBufferSizeInFrames: the sink clamps a request to its capacity and
\* returns the size it actually set.  The capacity is a whole number of
\* bursts, as every buffer size is.
SinkSetBufferSize(requested) ==
    IF requested > bufferCapacityInFrames THEN bufferCapacityInFrames ELSE requested

---------------------------------------------------------------------------
(* LatencyMarkHarness::onBeforeNoteOn *)

\* lines 138-140 without the guard on the active time
UnderrunDetected_noTimeGuard ==
    underrunCount > mPreviousUnderrunCount

\* lines 138-140: the check runs only once active time has elapsed, and
\* fires when the sink's count is above the baseline.
UnderrunDetected ==
    activeTime > 0 /\ underrunCount > mPreviousUnderrunCount

\* line 144 with the burst added twice
DesiredSizeInFrames_twoBursts(sizeInFrames) == sizeInFrames + 2 * mFramesPerBurst

\* line 144 with the burst left out
DesiredSizeInFrames_noGrowth(sizeInFrames) == sizeInFrames

\* line 144 with the burst subtracted
DesiredSizeInFrames_shrinks(sizeInFrames) == sizeInFrames - mFramesPerBurst

\* line 144
DesiredSizeInFrames(sizeInFrames) == sizeInFrames + mFramesPerBurst

\* line 146 with the comparison turned round
GrowthRefused_reversed(actualSize, desiredSizeInFrames) == actualSize > desiredSizeInFrames

\* line 146
GrowthRefused(actualSize, desiredSizeInFrames) == actualSize < desiredSizeInFrames

\* line 151: (float) mFrameCounter / mSampleRate, in milliseconds
GlitchTime(frameCounter) == (frameCounter * 1000) \div mSampleRate

\* line 169 without the factor 1000.0
LatencyMicros_noFactor(sizeFrames) == (1000 * sizeFrames) \div mSampleRate

\* line 169: 1000.0 * sizeFrames / mSampleRate, in microseconds
LatencyMicros(sizeFrames) == (1000 * 1000 * sizeFrames) \div mSampleRate

---------------------------------------------------------------------------
(* LatencyMarkHarness::getCurrentNumVoices *)

\* the % of C for a non-negative left operand and a non-zero right operand
CMod(a, b) == IF b > 0 THEN a % b ELSE a % (0 - b)

\* rand(): the next state of the generator; the value drawn is the new state
NextRand(s) == (5 * s + 3) % RandModulus

\* line 192 with the test dropped
NeedUpdate_always(noteCounter) == TRUE

\* line 192
NeedUpdate(noteCounter) == (noteCounter % (NOTES_PER_STEP \div 2)) = 0

\* lines 201-204 without the test against high
LinearLoopVoices_noUpperTest(last) ==
    LET v == last + (NOTES_PER_STEP \div 2)
    IN  IF v < mNumVoices THEN mNumVoices ELSE v

\* lines 201-204
LinearLoopVoices(last) ==
    LET v == last + (NOTES_PER_STEP \div 2)
    IN  IF v > mNumVoicesHigh \/ v < mNumVoices THEN mNumVoices ELSE v

\* lines 208-209
RandomVoices(r) == CMod(r, mNumVoicesHigh - mNumVoices + 1) + mNumVoices

\* lines 215-217 with <= for <
SwitchVoices_offByOne(noteCounter) ==
    IF (noteCounter % NOTES_PER_STEP) <= (NOTES_PER_STEP \div 2)
    THEN mNumVoices
    ELSE mNumVoicesHigh

\* lines 215-217
SwitchVoices(noteCounter) ==
    IF (noteCounter % NOTES_PER_STEP) < (NOTES_PER_STEP \div 2)
    THEN mNumVoices
    ELSE mNumVoicesHigh

\* lines 195-220: the value of the static after the call
UpdatedLastVoices(noteCounter, last, r) ==
    IF ~NeedUpdate(noteCounter) THEN last
    ELSE CASE mVoicesMode = "VOICES_LINEAR_LOOP" -> LinearLoopVoices(last)
           [] mVoicesMode = "VOICES_RANDOM" -> RandomVoices(r)
           [] OTHER -> SwitchVoices(noteCounter)

\* line 190: modulation is on only when high is positive
HighIsSet == mNumVoicesHigh > 0

\* the call: <<value returned, lastVoices after, generator state after>>
getCurrentNumVoices(noteCounter, last, rs) ==
    IF HighIsSet
    THEN LET draws == NeedUpdate(noteCounter) /\ mVoicesMode = "VOICES_RANDOM"
             rs2 == IF draws THEN NextRand(rs) ELSE rs
             nv == UpdatedLastVoices(noteCounter, last, rs2)
         IN  <<nv, nv, rs2>>
    ELSE <<mNumVoices, last, rs>>

---------------------------------------------------------------------------
(* LatencyMarkHarness::monitorCallback *)

\* line 96 with the comparison dropped
SizeChanged_always(current, previous) == TRUE

\* line 96
SizeChanged(current, previous) == current # previous

\* line 92 with the flag ignored
MonitorContinues_ignoresFlag == TRUE

\* line 92: the loop goes on while the flag is set.  The loop body calls
\* functions the compiler cannot see through, so the flag is read anew at
\* every test.
MonitorContinues == mMonitorEnabled

\* line 82 without the join
MonitorJoined_noWait == TRUE

\* line 82: join returns once the thread function has returned
MonitorJoined == mpc = "exited"

---------------------------------------------------------------------------
(* Initial states *)

InitWith(windows, modes, pairs) ==
    /\ mSampleRate \in SampleRates
    /\ mFramesPerBurst \in BurstSizes
    /\ \E w \in windows : mFramesNeeded = w * mFramesPerBurst
    /\ \E c \in 1..MaxBursts : bufferCapacityInFrames = c * mFramesPerBurst
    /\ \E b \in 1..2 : bufferSizeInFrames = b * mFramesPerBurst
    /\ bufferSizeInFrames <= bufferCapacityInFrames
    /\ underrunCount = 0
    /\ pc = "idle"
    /\ mFrameCounter = 0
    /\ mNoteCounter = 0
    /\ activeTime = 0
    /\ mVoicesMode \in modes
    /\ \E p \in pairs : mNumVoices = p[1] /\ mNumVoicesHigh = p[2]
    /\ voices = 0
    /\ resultCode = UNINITIALIZED
    /\ measurement = 0
    /\ latencyMicros = 0
    /\ runResult = UNINITIALIZED
    /\ mPreviousUnderrunCount = 0
    /\ mMonitorThread = FALSE
    /\ mMonitorEnabled = TRUE
    /\ mGlitchTime = 0
    /\ lastVoices = 0
    /\ randState = 0
    /\ mpc = "none"
    /\ previousBufferSize = 0
    /\ pollsAfterStop = 0
    /\ currentBufferSize = 0
    /\ notifications = 0
    /\ lastNotice = NoNotice
    /\ detections = 0
    /\ requests = 0
    /\ refused = FALSE
    /\ sizeChanges = 0
    /\ underrunsAtRestart = 0
    /\ run = 1
    /\ trace = <<>>
    /\ previousTrace = <<>>

Init == InitWith({WindowBursts}, VoicesModes, VoicePairs)

InitLoad == InitWith({LoadWindowBursts}, VoicesModes, VoicePairs)

---------------------------------------------------------------------------
(* The primary flow *)

\* A change of the sink's buffer size while the monitor thread is inside the
\* loop of monitorCallback (it has read its first size and has not returned).
CountChange(newSize) ==
    sizeChanges' = IF mpc \in {"while", "sleep", "print"} /\ newSize # bufferSizeInFrames
                   THEN sizeChanges + 1 ELSE sizeChanges

\* runTest, line 115: startMonitorCallback (lines 69-77)
StartMonitorCallback(err) ==
    /\ pc = "idle"
    /\ mMonitorEnabled' = TRUE
    /\ mMonitorThread' = (err = 0)
    /\ mpc' = IF err = 0 THEN "entry" ELSE "none"
    /\ pc' = "begin"
    /\ UNCHANGED <<sinkVars, configVars, runVars, windowVars, voiceVars, resultVars, historyVars,
                   previousBufferSize, currentBufferSize, notifications, lastNotice,
                   pollsAfterStop, activeTime, mPreviousUnderrunCount, mGlitchTime>>

\* The base class opens the window (counters and timer at zero) and calls
\* onBeginMeasurement (lines 121-129); the first callback turns a note on.
BeginMeasurement ==
    /\ pc = "begin"
    /\ mFrameCounter' = 0
    /\ mNoteCounter' = 0
    /\ activeTime' = 0
    /\ mPreviousUnderrunCount' = 0
    /\ bufferSizeInFrames' = SinkSetBufferSize(mFramesPerBurst)
    /\ CountChange(SinkSetBufferSize(mFramesPerBurst))
    /\ underrunsAtRestart' = underrunCount
    /\ pc' = "note"
    /\ UNCHANGED <<bufferCapacityInFrames, underrunCount, configVars, runVars, voiceVars, resultVars,
                   monitorVars, detections, requests, refused,
                   mMonitorThread, mMonitorEnabled, mGlitchTime>>

\* onBeforeNoteOn, lines 138-149 and 161: the check, the growth request and
\* the refusal.  A refusal ends the run with the error as its result.
BeforeNoteOn ==
    /\ pc = "note"
    /\ IF UnderrunDetected
       THEN LET desired == DesiredSizeInFrames(bufferSizeInFrames)
                actual == SinkSetBufferSize(desired)
            IN  /\ mPreviousUnderrunCount' = underrunCount
                /\ bufferSizeInFrames' = actual
                /\ CountChange(actual)
                /\ detections' = detections + 1
                /\ requests' = requests + 1
                /\ refused' = (refused \/ actual < desired)
                /\ IF GrowthRefused(actual, desired)
                   THEN /\ resultCode' = UNRECOVERABLE_ERROR
                        /\ runResult' = UNRECOVERABLE_ERROR
                        /\ pc' = "stop"
                   ELSE /\ UNCHANGED <<resultCode, runResult>>
                        /\ pc' = "glitch"
       ELSE /\ pc' = "noteOn"
            /\ UNCHANGED <<mPreviousUnderrunCount, bufferSizeInFrames, detections, requests,
                           refused, sizeChanges, resultCode, runResult>>
    /\ UNCHANGED <<bufferCapacityInFrames, underrunCount, configVars, runVars, windowVars, voiceVars,
                   measurement, latencyMicros, monitorVars, underrunsAtRestart,
                   activeTime, mMonitorThread, mMonitorEnabled, mGlitchTime>>

\* onBeforeNoteOn, lines 151-158: record the glitch time, then restart()
\* (lines 131-135).
RecordGlitch ==
    /\ pc = "glitch"
    /\ mGlitchTime' = GlitchTime(mFrameCounter)
    /\ mFrameCounter' = 0
    /\ mNoteCounter' = 0
    /\ underrunsAtRestart' = underrunCount
    /\ pc' = "noteOn"
    /\ UNCHANGED <<sinkVars, configVars, runVars, voiceVars, resultVars, monitorVars,
                   detections, requests, refused, sizeChanges,
                   activeTime, mPreviousUnderrunCount, mMonitorThread, mMonitorEnabled>>

\* The callback turns the note on with getCurrentNumVoices() voices
\* (lines 189-229) and counts the note.  The hook onBeforeNoteOn has run
\* before the note is turned on, so a restart is followed by a call of
\* getCurrentNumVoices at note counter 0.
NotesOn ==
    /\ pc = "noteOn"
    /\ LET r == getCurrentNumVoices(mNoteCounter, lastVoices, randState)
       IN  /\ voices' = r[1]
           /\ lastVoices' = r[2]
           /\ randState' = r[3]
    /\ mNoteCounter' = mNoteCounter + 1
    /\ pc' = "burst"
    /\ UNCHANGED <<sinkVars, configVars, mFrameCounter, resultVars, monitorVars, historyVars,
                   activeTime, mPreviousUnderrunCount, mMonitorThread, mMonitorEnabled,
                   mGlitchTime>>

NoteOn ==
    /\ NotesOn
    /\ UNCHANGED runVars

\* The same step with the value written down: trace is the sequence of
\* values getCurrentNumVoices returned to this harness instance.
NoteOnTraced ==
    /\ NotesOn
    /\ trace' = Append(trace, voices')
    /\ UNCHANGED <<run, previousTrace>>

\* The callback renders one burst; the window is complete once the frame
\* counter reaches the frames needed, otherwise the next callback follows,
\* with or without a note to turn on.
RenderBurst ==
    /\ pc = "burst"
    /\ mFrameCounter' = mFrameCounter + mFramesPerBurst
    /\ activeTime' = IF activeTime < MaxActiveTime THEN activeTime + 1 ELSE activeTime
    /\ IF mFrameCounter + mFramesPerBurst >= mFramesNeeded
       THEN pc' = "end"
       ELSE pc' \in {"note", "burst"}
    /\ UNCHANGED <<sinkVars, configVars, runVars, mNoteCounter, voiceVars, resultVars, monitorVars,
                   historyVars, mPreviousUnderrunCount, mMonitorThread, mMonitorEnabled,
                   mGlitchTime>>

\* onEndMeasurement, lines 167-183
EndMeasurement ==
    /\ pc = "end"
    /\ latencyMicros' = LatencyMicros(bufferSizeInFrames)
    /\ resultCode' = SUCCESS
    /\ measurement' = bufferSizeInFrames
    /\ runResult' = SUCCESS
    /\ pc' = "stop"
    /\ UNCHANGED <<sinkVars, configVars, runVars, windowVars, voiceVars, monitorVars, historyVars,
                   activeTime, mPreviousUnderrunCount, mMonitorThread, mMonitorEnabled,
                   mGlitchTime>>

\* runTest, line 117: stopMonitorCallback, lines 80-81
StopMonitorCallback ==
    /\ pc = "stop"
    /\ IF mMonitorThread
       THEN /\ mMonitorEnabled' = FALSE
            /\ pc' = "join"
       ELSE /\ UNCHANGED mMonitorEnabled
            /\ pc' = "done"
    /\ UNCHANGED <<sinkVars, configVars, runVars, windowVars, voiceVars, resultVars, monitorVars,
                   historyVars, activeTime, mPreviousUnderrunCount, mMonitorThread,
                   mGlitchTime>>

\* stopMonitorCallback, lines 82-84, and the return of runTest (line 118)
JoinMonitor ==
    /\ pc = "join"
    /\ MonitorJoined
    /\ mMonitorThread' = FALSE
    /\ pc' = "done"
    /\ UNCHANGED <<sinkVars, configVars, runVars, windowVars, voiceVars, resultVars, monitorVars,
                   historyVars, activeTime, mPreviousUnderrunCount, mMonitorEnabled,
                   mGlitchTime>>

\* The process builds the next harness with the same configuration after
\* runTest has returned.  The constructor (lines 50-62, initialisers of
\* lines 233-238) resets the fields and calls srand(0); the static of
\* getCurrentNumVoices (line 193) belongs to the process and keeps its value.
NewHarness ==
    /\ pc = "done"
    /\ run < MaxRuns
    /\ run' = run + 1
    /\ previousTrace' = trace
    /\ trace' = <<>>
    /\ randState' = 0
    /\ voices' = 0
    /\ mPreviousUnderrunCount' = 0
    /\ mMonitorThread' = FALSE
    /\ mMonitorEnabled' = TRUE
    /\ mGlitchTime' = 0
    /\ mFrameCounter' = 0
    /\ mNoteCounter' = 0
    /\ activeTime' = 0
    /\ resultCode' = UNINITIALIZED
    /\ measurement' = 0
    /\ latencyMicros' = 0
    /\ runResult' = UNINITIALIZED
    /\ pc' = "idle"
    /\ UNCHANGED <<sinkVars, configVars, lastVoices, monitorVars, historyVars>>

\* The growth requests of onBeforeNoteOn (line 145) that the sink honoured.
Growths == detections - (IF refused THEN 1 ELSE 0)

---------------------------------------------------------------------------
(* The sink's driver: an underrun while the stream is running *)

Underrun ==
    /\ pc \in {"note", "glitch", "noteOn", "burst"}
    /\ underrunCount < MaxUnderruns
    /\ underrunCount' = underrunCount + 1
    /\ UNCHANGED <<bufferSizeInFrames, bufferCapacityInFrames, configVars, runVars, windowVars,
                   voiceVars, resultVars, monitorVars, historyVars, pc, activeTime,
                   mPreviousUnderrunCount, mMonitorThread, mMonitorEnabled, mGlitchTime>>

---------------------------------------------------------------------------
(* The monitor thread *)

mainVars == <<sinkVars, configVars, runVars, windowVars, voiceVars, resultVars, historyVars,
              pc, activeTime, mPreviousUnderrunCount, mMonitorThread, mMonitorEnabled,
              mGlitchTime>>

\* line 91
MonitorEntry ==
    /\ mpc = "entry"
    /\ previousBufferSize' = bufferSizeInFrames
    /\ mpc' = "while"
    /\ UNCHANGED <<mainVars, currentBufferSize, notifications, lastNotice, pollsAfterStop>>

\* line 92
MonitorWhile ==
    /\ mpc = "while"
    /\ mpc' = IF MonitorContinues THEN "sleep" ELSE "exited"
    /\ UNCHANGED <<mainVars, previousBufferSize, currentBufferSize, notifications, lastNotice,
                   pollsAfterStop>>

\* lines 93-96: the sleep ends, the size is read and compared
MonitorPoll ==
    /\ mpc = "sleep"
    /\ IF SizeChanged(bufferSizeInFrames, previousBufferSize)
       THEN /\ currentBufferSize' = bufferSizeInFrames
            /\ mpc' = "print"
       ELSE /\ currentBufferSize' = 0
            /\ mpc' = "while"
    /\ pollsAfterStop' = IF mMonitorEnabled THEN pollsAfterStop ELSE pollsAfterStop + 1
    /\ UNCHANGED <<mainVars, previousBufferSize, notifications, lastNotice>>

\* lines 97-102: printf reads mGlitchTime; the last-seen size is updated
MonitorPrint ==
    /\ mpc = "print"
    /\ lastNotice' = [time |-> mGlitchTime, size |-> currentBufferSize,
                      bursts |-> currentBufferSize \div mFramesPerBurst]
    /\ notifications' = notifications + 1
    /\ previousBufferSize' = currentBufferSize
    /\ currentBufferSize' = 0
    /\ mpc' = "while"
    /\ UNCHANGED <<mainVars, pollsAfterStop>>

---------------------------------------------------------------------------
(* Specifications *)

Next ==
    \/ \E err \in {0, 1} : StartMonitorCallback(err)
    \/ BeginMeasurement
    \/ BeforeNoteOn
    \/ RecordGlitch
    \/ NoteOn
    \/ RenderBurst
    \/ EndMeasurement
    \/ StopMonitorCallback
    \/ JoinMonitor
    \/ Underrun
    \/ MonitorEntry
    \/ MonitorWhile
    \/ MonitorPoll
    \/ MonitorPrint

Spec == Init /\ [][Next]_vars

\* Runs in which HostThread::start fails (line 73): no monitor thread.
NextLoad ==
    \/ StartMonitorCallback(1)
    \/ BeginMeasurement
    \/ BeforeNoteOn
    \/ RecordGlitch
    \/ NoteOn
    \/ RenderBurst
    \/ EndMeasurement
    \/ StopMonitorCallback
    \/ Underrun

SpecLoad == InitLoad /\ [][NextLoad]_vars

\* Harness instances run one after the other in one process, with no monitor
\* thread and no underrun, so that each makes the same calls of
\* getCurrentNumVoices.
NextRuns ==
    \/ StartMonitorCallback(1)
    \/ BeginMeasurement
    \/ BeforeNoteOn
    \/ NoteOnTraced
    \/ RenderBurst
    \/ EndMeasurement
    \/ StopMonitorCallback
    \/ NewHarness

InitRuns == InitWith({LoadWindowBursts}, VoicesModes, VoicePairs)

SpecRuns == InitRuns /\ [][NextRuns]_vars

\* The steps of the primary flow and of the monitor thread.
Primary ==
    \/ \E err \in {0, 1} : StartMonitorCallback(err)
    \/ BeginMeasurement
    \/ BeforeNoteOn
    \/ RecordGlitch
    \/ NoteOn
    \/ RenderBurst
    \/ EndMeasurement
    \/ StopMonitorCallback
    \/ JoinMonitor

Monitor ==
    \/ MonitorEntry
    \/ MonitorWhile
    \/ MonitorPoll
    \/ MonitorPrint

InitFair == InitWith({WindowBursts}, {"VOICES_SWITCH"}, {<<2, 13>>})

\* Both threads keep being scheduled: the audio callbacks keep coming and
\* the monitor's sleep ends.  The driver's underruns are under no obligation.
SpecFair == InitFair /\ [][Next]_vars /\ WF_vars(Primary) /\ WF_vars(Monitor)

---------------------------------------------------------------------------
(* Properties of the latency search *)

\* C1 (as stated): at the end of a run in which no growth was refused, the
\* buffer size is one burst plus one burst per underrun event the sink
\* reported during the run, however the events fell between the calls of
\* onBeforeNoteOn (stated for the runs in which a call followed every event).
C1_OneBurstPerUnderrunEvent ==
    (pc = "done" /\ ~refused /\ mPreviousUnderrunCount = underrunCount)
        => bufferSizeInFrames = mFramesPerBurst + underrunCount * mFramesPerBurst

\* C1 (amended): at the end of a run in which no growth was refused, the
\* buffer size is one burst plus one burst per onBeforeNoteOn call that saw
\* the sink's underrun count above the recorded baseline.
C1_OneBurstPerDetection ==
    (pc = "done" /\ ~refused)
        => bufferSizeInFrames = mFramesPerBurst + detections * mFramesPerBurst

\* a finished run with two growths out of three underrun events
C1_Witness ==
    /\ pc = "done"
    /\ ~refused
    /\ detections = 2
    /\ underrunCount = 3
    /\ bufferSizeInFrames = 3 * mFramesPerBurst

\* C2: once the sink has returned less than a growth request asked for, the
\* run has left the measurement and its result, both as returned by runTest
\* and as recorded, is UnrecoverableError and stays so.
C2_RefusalIsTerminal ==
    refused => /\ pc \in {"stop", "join", "done"}
               /\ resultCode = UNRECOVERABLE_ERROR
               /\ runResult = UNRECOVERABLE_ERROR

\* a run that returned after a refused growth
C2_Witness ==
    /\ pc = "done"
    /\ refused
    /\ runResult = UNRECOVERABLE_ERROR

\* C3: the step in which a growth request is refused leaves the sink's
\* buffer size as it was, and after it the size never changes and no further
\* growth request is made.
C3_NoMutationAfterRefusal ==
    [][refused' => /\ bufferSizeInFrames' = bufferSizeInFrames
                   /\ (refused => requests' = requests)]_vars

\* a refusal that followed two honoured growths, with the run returned
C3_Witness ==
    /\ pc = "done"
    /\ refused
    /\ requests = 3
    /\ bufferSizeInFrames = bufferCapacityInFrames

\* C4: from onBeginMeasurement to the end of the run the sink's buffer size
\* never decreases from one step to the next and never exceeds the capacity.
C4_MonotoneAndBounded ==
    /\ [](bufferSizeInFrames <= bufferCapacityInFrames)
    /\ [][pc \notin {"idle", "begin"} => bufferSizeInFrames' >= bufferSizeInFrames]_vars

\* a finished run whose buffer grew to the capacity
C4_Witness ==
    /\ pc = "done"
    /\ ~refused
    /\ bufferSizeInFrames > mFramesPerBurst
    /\ bufferSizeInFrames = bufferCapacityInFrames

\* C5: whenever onEndMeasurement has recorded a measurement, the sink's
\* underrun count has not increased since the window was last restarted (or
\* opened).
C5_MeasuredWindowHadNoUnderrun ==
    resultCode = SUCCESS => underrunCount = underrunsAtRestart

\* C6: a run in which the sink reports no underrun ends with Success, the
\* measurement is the buffer size, which is one burst, and the latency is
\* 1000 * frames / sampleRate milliseconds (192 frames at 48000 Hz: 4 ms).
C6_NoUnderrunRun ==
    (pc = "done" /\ underrunCount = 0)
        => /\ resultCode = SUCCESS
           /\ runResult = SUCCESS
           /\ measurement = bufferSizeInFrames
           /\ measurement = mFramesPerBurst
           /\ latencyMicros * mSampleRate = 1000 * 1000 * measurement
           /\ (mSampleRate = 48000 /\ mFramesPerBurst = 192
                  => measurement = 192 /\ latencyMicros = 4000)

\* a finished run without underruns at 48000 Hz and 192 frames per burst
C6_Witness ==
    /\ pc = "done"
    /\ underrunCount = 0
    /\ mSampleRate = 48000
    /\ measurement = 192
    /\ latencyMicros = 4000

---------------------------------------------------------------------------
(* Properties of the monitor thread *)

\* C7 (as stated): when stopMonitorCallback has returned, the number of
\* notifications equals the number of times the sink's buffer size changed
\* while the monitor thread was running its loop.
C7_OneNoticePerTransition ==
    pc = "done" => notifications = sizeChanges

\* C7 (amended): the number of notifications never exceeds the number of
\* times the sink's buffer size changed while the monitor thread was running
\* its loop.
C7_AtMostOneNoticePerTransition ==
    notifications <= sizeChanges

\* a returned run in which the monitor printed, but less often than the
\* size changed
C7_Witness ==
    /\ pc = "done"
    /\ notifications >= 1
    /\ notifications < sizeChanges

\* C8: every notification reports a size that differs from the size the
\* monitor saw last, is the only one of its step, and makes the reported
\* size the last-seen size.
C8_NoticeOnlyOnChange ==
    [][notifications' # notifications
          => /\ notifications' = notifications + 1
             /\ lastNotice'.size # previousBufferSize
             /\ previousBufferSize' = lastNotice'.size]_vars

\* the monitor has reported a growth to two bursts after an earlier report
C8_Witness ==
    /\ notifications = 2
    /\ lastNotice.size = 2 * mFramesPerBurst
    /\ previousBufferSize = lastNotice.size

\* C9: once stopMonitorCallback has returned, the monitor thread (if one
\* was started) has left monitorCallback, and no notification is emitted in
\* any later step.
C9_QuietAfterStop ==
    /\ [](pc = "done" => mpc \in {"none", "exited"})
    /\ [][pc = "done" => notifications' = notifications]_vars

\* stop has returned from joining a monitor thread that had printed
C9_Witness ==
    /\ pc = "done"
    /\ mpc = "exited"
    /\ notifications >= 1

---------------------------------------------------------------------------
(* Properties of the load generator *)

C12_UnsetHighGivesLow ==
    (pc = "burst" /\ (mNumVoicesHigh = 0 \/ mNumVoicesHigh <= mNumVoices))
        => voices = mNumVoices

\* C14: when high is set and low <= high, every value getCurrentNumVoices
\* returns lies in low..high, in all three modes; in Random mode every
\* integer of low..high is the result of some draw.
C14_VoicesInRange ==
    (mNumVoicesHigh > 0 /\ mNumVoices <= mNumVoicesHigh)
        => /\ pc = "burst" => voices \in mNumVoices..mNumVoicesHigh
           /\ mVoicesMode = "VOICES_RANDOM"
                 => \A v \in mNumVoices..mNumVoicesHigh :
                        \E r \in 0..(RandModulus - 1) : RandomVoices(r) = v

\* the linear ramp has wrapped and climbed again to 12 of 2..13
C14_Witness ==
    /\ pc = "burst"
    /\ mVoicesMode = "VOICES_LINEAR_LOOP"
    /\ mNumVoices = 2
    /\ mNumVoicesHigh = 13
    /\ voices = 12

\* C15: the static lastVoices changes only in a call of getCurrentNumVoices
\* made at a note counter that is a multiple of 5; a call at any other note
\* counter returns the count returned before and leaves the static alone;
\* restart() leaves the static alone.
C15_LastVoicesFrame ==
    [][/\ lastVoices' # lastVoices
            => (pc = "noteOn" /\ pc' = "burst" /\ mNoteCounter % 5 = 0)
       /\ (pc = "noteOn" /\ pc' = "burst" /\ mNoteCounter % 5 # 0)
            => /\ voices' = voices
               /\ lastVoices' = lastVoices
               /\ (mNumVoicesHigh > 0 => voices' = lastVoices)
       /\ (pc = "glitch" /\ pc' = "noteOn") => lastVoices' = lastVoices]_vars

\* the third note after a restart is turned on with the count kept in the
\* static
C15_Witness ==
    /\ pc = "burst"
    /\ detections >= 1
    /\ mNoteCounter = 3
    /\ mVoicesMode = "VOICES_LINEAR_LOOP"
    /\ mNumVoicesHigh > mNumVoices
    /\ voices = lastVoices

---------------------------------------------------------------------------
(* Further properties of the latency search and the monitor thread *)

\* C18: a call of onBeforeNoteOn made while no active time has elapsed
\* returns Success and leaves the buffer size, the underrun baseline, the
\* window counters and the glitch time as they were, whatever the sink's
\* underrun count is.
C18_NoCheckBeforeActiveTime ==
    [][(pc = "note" /\ activeTime = 0 /\ pc' # pc)
          => /\ pc' = "noteOn"
             /\ UNCHANGED <<bufferSizeInFrames, mPreviousUnderrunCount, mFrameCounter,
                            mNoteCounter, mGlitchTime, resultCode, runResult>>]_vars

\* the first call has returned although the sink had reported underruns
C18_Witness ==
    /\ pc = "noteOn"
    /\ activeTime = 0
    /\ underrunCount > 0
    /\ mPreviousUnderrunCount = 0
    /\ detections = 0
    /\ bufferSizeInFrames = mFramesPerBurst

\* C19: the number of notifications emitted so far is at most the number of
\* growths onBeforeNoteOn has performed; pinning the buffer to one burst in
\* onBeginMeasurement produces no notification.
C19_NoticesOnlyForGrowths ==
    notifications <= Growths

\* C20: a notification that reports the size produced by the latest growth
\* reports the glitch time onBeforeNoteOn records for that growth (line 151),
\* not the time of an earlier growth or the initial 0.
C20_NoticeCarriesItsGlitchTime ==
    [][(notifications' # notifications /\ Growths >= 1
            /\ lastNotice'.size = bufferSizeInFrames)
          => lastNotice'.time = IF pc = "glitch" THEN GlitchTime(mFrameCounter)
                                ELSE mGlitchTime]_vars

\* C16: the number of restarts of one run never exceeds
\* (capacity - framesPerBurst) / framesPerBurst, and every run ends, with
\* Success or with UnrecoverableError.
C16_BoundedRestartsAndTermination ==
    /\ [](Growths <= (bufferCapacityInFrames - mFramesPerBurst) \div mFramesPerBurst)
    /\ <>(pc = "done" /\ runResult \in {SUCCESS, UNRECOVERABLE_ERROR})

\* a run that restarted as often as the capacity allows and then failed
C16_Witness ==
    /\ pc = "done"
    /\ refused
    /\ Growths = 2
    /\ runResult = UNRECOVERABLE_ERROR

\* C17: after stopMonitorCallback has cleared the flag the monitor thread
\* polls at most once more; the join, once begun, ends; and when no thread
\* was started stopMonitorCallback returns at once.
C17_CooperativeStop ==
    /\ [](pollsAfterStop <= 1)
    /\ [][(pc = "stop" /\ ~mMonitorThread /\ pc' # pc) => pc' = "done"]_vars
    /\ ((pc = "join") ~> (pc = "done"))

\* stop has returned after the monitor finished the poll it was sleeping
\* towards
C17_Witness ==
    /\ pc = "done"
    /\ mpc = "exited"
    /\ pollsAfterStop = 1

---------------------------------------------------------------------------
(* The load generator over whole runs *)

\* The positions of the trace at which getCurrentNumVoices recomputed its
\* value (note counters 0, 5, 10, ...).
UpdateIndices == {k \in 1..Len(trace) : NeedUpdate(k - 1)}

\* C11: in LinearLoop mode with low <= high the values taken at the update
\* boundaries are the sawtooth low, low + 5, low + 10, ...: the first is low,
\* and each later one is the one before plus 5, or low when that exceeds high.
C11_SawtoothFromLow ==
    (mVoicesMode = "VOICES_LINEAR_LOOP" /\ HighIsSet /\ mNumVoices <= mNumVoicesHigh)
        => \A k \in UpdateIndices :
              trace[k] = IF k = 1
                         THEN mNumVoices
                         ELSE LET v == trace[k - (NOTES_PER_STEP \div 2)]
                                       + (NOTES_PER_STEP \div 2)
                              IN  IF v > mNumVoicesHigh THEN mNumVoices ELSE v

\* C13: two harness instances with the same mode, seed, bounds and notes,
\* run one after the other, get the same voice counts note by note.
C13_RunsAgree ==
    run = 2 =>
        \A k \in 1..Len(trace) : k <= Len(previousTrace) => trace[k] = previousTrace[k]

====
